---- MODULE Spec2Model ----
(***************************************************************************)
(* A model of antonmry/news: the daily digest generator                    *)
(* (scripts/generate_rss_markdown.py) and the summarization pass           *)
(* (scripts/summarize_long_entries.py).                                    *)
(*                                                                         *)
(* Python str values are sequences of one-character strings, so that the   *)
(* searches, slices and strips of the code are computed and not assumed.   *)
(* Time is counted in whole ticks.                                         *)
(***************************************************************************)
EXTENDS Integers, Sequences, FiniteSets, TLC

(***************************************************************************)
(* Bounds of the model.                                                    *)
(***************************************************************************)
\* lines of the Markdown file handed to the summarization pass
MaxLines == 2
\* --max-chars of the summarization pass (the code's default is 300)
max_chars == 18
\* how many ticks past the timeout a hung network call may still run
HangExtra == 2

(***************************************************************************)
(* Configuration read from the environment at import                       *)
(* (summarize_long_entries.py, lines 12-25), at small values.              *)
(***************************************************************************)
MAX_INPUT_LENGTH == 30
MAX_RETRIES == 3
API_TIMEOUT == 3
MAX_SUMMARIES == 1
\* SUMMARY_RETRY_DELAY and SUMMARY_MIN_INTERVAL values a run is started with
RetryDelays == {0, 2}
MinIntervals == {0, 1, 5}

(***************************************************************************)
(* Python's str operations.                                                *)
(***************************************************************************)
MaxOf(S) == CHOOSE x \in S : \A y \in S : y <= x

RECURSIVE Pow2(_)
Pow2(n) == IF n <= 0 THEN 1 ELSE 2 * Pow2(n - 1)

\* s[a:b] for 0 <= a, with b clipped to len(s)
Slice(s, a, b) == SubSeq(s, a + 1, IF b > Len(s) THEN Len(s) ELSE b)

\* s.rfind(sub, lo, hi): the highest 0-based index k with lo <= k,
\* k + len(sub) <= hi and s[k:k+len(sub)] = sub, or -1
RFind(s, sub, lo, hi) ==
    LET top == IF hi > Len(s) THEN Len(s) ELSE hi
        hits == {k \in lo..(top - Len(sub)) : SubSeq(s, k + 1, k + Len(sub)) = sub}
    IN IF hits = {} THEN -1 ELSE MaxOf(hits)

\* sub in s
Contains(s, sub) == RFind(s, sub, 0, Len(s)) # -1

StartsWith(s, pre) == Len(s) >= Len(pre) /\ SubSeq(s, 1, Len(pre)) = pre

EndsWith(s, suf) ==
    Len(s) >= Len(suf) /\ SubSeq(s, Len(s) - Len(suf) + 1, Len(s)) = suf

IsSpace(c) == c \in {" ", "\t", "\n"}

RECURSIVE LStrip(_)
LStrip(s) == IF s # <<>> /\ IsSpace(Head(s)) THEN LStrip(Tail(s)) ELSE s

RECURSIVE RStrip(_)
RStrip(s) ==
    IF s # <<>> /\ IsSpace(s[Len(s)]) THEN RStrip(SubSeq(s, 1, Len(s) - 1)) ELSE s

\* s.strip()
Strip(s) == LStrip(RStrip(s))

\* " ".join(s.split()): runs of whitespace become one blank, the ends are bare
RECURSIVE CollapseFrom(_, _)
CollapseFrom(s, pending) ==
    IF s = <<>> THEN <<>>
    ELSE IF IsSpace(Head(s)) THEN CollapseFrom(Tail(s), TRUE)
    ELSE (IF pending THEN <<" ">> ELSE <<>>) \o <<Head(s)>>
             \o CollapseFrom(Tail(s), FALSE)

JoinSplit(s) == CollapseFrom(LStrip(s), FALSE)

\* s.replace(a, b) for one-character a and b
ReplaceChar(s, a, b) == [k \in 1..Len(s) |-> IF s[k] = a THEN b ELSE s[k]]

(***************************************************************************)
(* generate_rss_markdown.py: the bullet format.                            *)
(***************************************************************************)
\* urllib.parse.quote_plus on one character: letters, digits and _.-~ are
\* kept, a blank becomes "+", anything else its percent-encoded bytes
QuoteChar(c) ==
    CASE c = " " -> <<"+">>
      [] c = "[" -> <<"%", "5", "B">>
      [] c = "]" -> <<"%", "5", "D">>
      [] c = "(" -> <<"%", "2", "8">>
      [] c = ")" -> <<"%", "2", "9">>
      [] c = "/" -> <<"%", "2", "F">>
      [] c = ":" -> <<"%", "3", "A">>
      [] c = "?" -> <<"%", "3", "F">>
      [] c = "=" -> <<"%", "3", "D">>
      [] c = "\"" -> <<"%", "2", "2">>
      [] c = "'" -> <<"%", "2", "7">>
      [] OTHER -> <<c>>

RECURSIVE quote_plus(_)
quote_plus(s) ==
    IF s = <<>> THEN <<>> ELSE QuoteChar(Head(s)) \o quote_plus(Tail(s))

ShareIntent == <<"h", "t", "t", "p", "s", ":", "/", "/", "b", "s", "k", "y", ".", "a", "p", "p", "/", "i", "n", "t", "e", "n", "t", "/", "c", "o", "m", "p", "o", "s", "e", "?", "t", "e", "x", "t", "=">>

LabelArticle == <<"A", "r", "t", "i", "c", "l", "e">>
LabelVideo == <<"V", "i", "d", "e", "o">>
LabelPost == <<"P", "o", "s", "t">>
LabelRelease == <<"R", "e", "l", "e", "a", "s", "e">>
LabelBsky == <<"B", "s", "k", "y">>

\* " [label](link)"
LinkSegment(link_label, link) ==
    <<" ", "[">> \o link_label \o <<"]", "(">> \o link \o <<")">>

_format_link_pair(message, link, link_label, include_share) ==
    IF link = <<>> THEN message
    ELSE IF include_share
    THEN message \o LinkSegment(link_label, link)
           \o LinkSegment(LabelBsky,
                          ShareIntent \o quote_plus(message \o <<" ">> \o link))
    ELSE message \o LinkSegment(link_label, link)

\* f"- {_format_link_pair(...)}" as appended to a section of the digest
BulletLine(message, link, link_label, include_share) ==
    <<"-", " ">> \o _format_link_pair(message, link, link_label, include_share)

(***************************************************************************)
(* summarize_long_entries.py: the pure helpers.                            *)
(***************************************************************************)
_wrap_summary(text) ==
    IF text = <<>> THEN text
    ELSE <<"\"">> \o Strip(ReplaceChar(JoinSplit(text), "\"", "'")) \o <<"\"">>

\* the pair (message, link_part)
_split_link(line) ==
    LET idx == RFind(line, <<"]", "(">>, 0, Len(line))
        start == RFind(line, <<" ", "[">>, 0, idx)
    IN IF idx = -1 THEN <<line, <<>>>>
       ELSE IF start = -1 THEN <<line, <<>>>>
       ELSE <<Slice(line, 0, start), Slice(line, start, Len(line))>>

IsBullet(line) == StartsWith(line, <<"-", " ">>)

\* text = message[2:].strip(), the text the pass measures and sends
MessageText(line) ==
    LET message == _split_link(line)[1]
    IN Strip(Slice(message, 2, Len(message)))

\* line.startswith("- ") and len(text) > args.max_chars
OverLength(line) == IsBullet(line) /\ Len(MessageText(line)) > max_chars

\* the prompt after the MAX_INPUT_LENGTH cut of _call_github_models
TruncatePrompt(prompt) ==
    IF Len(prompt) > MAX_INPUT_LENGTH
    THEN Slice(prompt, 0, MAX_INPUT_LENGTH) \o <<".", ".", ".">>
    ELSE prompt

\* the one character U+2026
Ellipsis == "U+2026"

\* the content _call_github_models returns for a response content
TruncateContent(content) ==
    IF Len(content) > max_chars
    THEN RStrip(Slice(content, 0, max_chars - 1)) \o <<Ellipsis>>
    ELSE content

\* _summarize_line without its "if not summary" test
SummarizedLineUnchecked(line, summary) ==
    <<"-", " ">> \o _wrap_summary(summary) \o _split_link(line)[2]

\* what _summarize_line returns once _call_github_models returned summary
SummarizedLine(line, summary) ==
    IF summary = <<>> THEN line
    ELSE <<"-", " ">> \o _wrap_summary(summary) \o _split_link(line)[2]

(***************************************************************************)
(* The state.                                                              *)
(***************************************************************************)
VARIABLES
    \* summarize_long_entries.py: main
    lines,              \* the lines read from the file
    origin,             \* how the Digest Renderer built each line
    i,                  \* 1-based position of the loop of main
    updated,            \* the lines collected so far
    lines_summarized,   \* the counter of main
    max_calls,          \* max_calls = MAX_SUMMARIES
    written,            \* the lines written back at the end
    pc,                 \* where the pass stands
    \* configuration read from the environment
    RETRY_DELAY, MIN_CALL_INTERVAL, token,
    \* _call_github_models
    prompt,             \* the text sent
    attempt,            \* the loop variable of the retry loop
    now,                \* time.monotonic()
    _last_call,         \* _call_github_models._last_call
    worker,             \* the call the executor's worker thread runs
    exc,                \* the exception the attempt raised
    \* history
    requests,           \* every request started: line, attempt, prompt, start
                        \* and the tick its network call ends by itself
    trace,              \* the attempts made for the bullet at hand
    fate,               \* what became of each line
    summary,            \* what _call_github_models last returned
    blocked             \* ticks the caller spent inside the last attempt

VARIABLES
    \* generate_rss_markdown.py: the arguments of generate_markdown
    blog_feeds, youtube_channels, sources, github_repos,
    \* generate_markdown
    gpc,                \* the loop generate_markdown is in, or how it ended
    idx,                \* 1-based position in the list of that loop
    now_utc,            \* the wall clock, datetime.now(tz=timezone.utc)
    ticks,              \* ticks the wall clock advanced since the run began
    blog_section, youtube_section, bluesky_section, github_section,
    doc,                \* the list "lines" of generate_markdown
    markdown,           \* the lines of the text returned
    crash,              \* the exception that left generate_markdown, if any
    \* history
    windows,            \* the windows the filter was applied with
    fetched             \* every source met: category, position, outcome

VARIABLES
    \* one application of the window filter
    f_entries, f_now, f_filtered, f_pc

genVars == <<blog_feeds, youtube_channels, sources, github_repos, gpc, idx,
             now_utc, ticks, blog_section, youtube_section, bluesky_section,
             github_section, doc, markdown, crash, windows, fetched>>

filterVars == <<f_entries, f_now, f_filtered, f_pc>>

sumVars == <<lines, origin, i, updated, lines_summarized, max_calls, written, pc,
             RETRY_DELAY, MIN_CALL_INTERVAL, token, prompt, attempt, now,
             _last_call, worker, exc, requests, trace, fate, summary, blocked>>

(***************************************************************************)
(* The files the pass is run on: lines the Digest Renderer writes.         *)
(***************************************************************************)
ShortMsg == <<"o", "k">>
LongMsg == [k \in 1..(max_chars + 1) |-> "a"]
Url == <<"u", "/", "x">>
HeadingBlogs == <<"#", "#", " ", "B", "l", "o", "g", "s">>

Origin(kind, message, link, link_label, include_share) ==
    [kind |-> kind, message |-> message, link |-> link,
     link_label |-> link_label, include_share |-> include_share]

\* the line generate_markdown appends for an origin
RenderedLine(o) ==
    IF o.kind = "bullet"
    THEN BulletLine(o.message, o.link, o.link_label, o.include_share)
    ELSE o.message

Origins ==
    { Origin("bullet", LongMsg, <<>>, LabelPost, FALSE),
      Origin("bullet", LongMsg, Url, LabelPost, FALSE),
      Origin("bullet", LongMsg, Url, LabelArticle, TRUE),
      Origin("bullet", ShortMsg, Url, LabelArticle, TRUE),
      Origin("heading", HeadingBlogs, <<>>, <<>>, FALSE) }

SeqsUpTo(S, n) == UNION {[1..k -> S] : k \in 1..n}

Files == SeqsUpTo(Origins, MaxLines)

\* the file of the timing runs: over-length bullets only
TimingFiles ==
    { <<Origin("heading", HeadingBlogs, <<>>, <<>>, FALSE),
        Origin("bullet", LongMsg, Url, LabelPost, FALSE),
        Origin("bullet", LongMsg, <<>>, LabelPost, FALSE),
        Origin("bullet", LongMsg, Url, LabelPost, FALSE)>> }

(***************************************************************************)
(* What the endpoint may answer, and how long a call may take.             *)
(***************************************************************************)
Response(kind, code, retry_after, content) ==
    [kind |-> kind, code |-> code, retry_after |-> retry_after, content |-> content]

NoResponse == Response("none", 0, 0, <<>>)

\* choices[0].message.content of a 200 response
Plain == <<"s", "u", "m">>
Messy == <<" ", "a", " ", " ", "\"", "b", "\"">>
Blank == <<" ", " ">>
TooLong == [k \in 1..(max_chars + 2) |-> IF k = max_chars - 1 THEN " " ELSE "s"]

Contents == {<<>>, Blank, Plain, Messy, TooLong}

\* retry_after is the Retry-After header of the response, 0 when it has none
Failures ==
    { Response("http", 429, 7, <<>>),
      Response("http", 500, 0, <<>>),
      Response("urlerror", 0, 0, <<>>) }

Responses == {Response("ok", 200, 0, c) : c \in Contents} \cup Failures

TimingResponses ==
    { Response("ok", 200, 0, Plain),
      Response("http", 429, 7, <<>>),
      Response("http", 500, 0, <<>>) }

\* a call is an answer and the ticks it takes: any answer at once, or a
\* call that outlasts the timeout and would have answered in the end
Calls(responses) ==
    {[resp |-> r, dur |-> 1] : r \in responses}
        \cup {[resp |-> Response("ok", 200, 0, Plain), dur |-> API_TIMEOUT + HangExtra]}

NoWorker == [start |-> 0, dur |-> 0, resp |-> NoResponse, running |-> FALSE]

(***************************************************************************)
(* Exceptions.  headers is getattr(e, "headers", None).                    *)
(***************************************************************************)
NoHeaders == [present |-> FALSE, retry_after |-> 0]

Exception(type, text) == [type |-> type, text |-> text, headers |-> NoHeaders]

NoException == Exception("none", "")

\* f"{e.code} {e.reason}"
StatusText(code) ==
    CASE code = 429 -> "429 Too Many Requests"
      [] code = 500 -> "500 Internal Server Error"
      [] OTHER -> "error"

\* what _call_api raises for a failed response: an HTTPError is re-raised as
\* a RuntimeError carrying the status text and nothing else
_call_api_raises(resp) ==
    IF resp.kind = "http" THEN Exception("RuntimeError", StatusText(resp.code))
    ELSE Exception("URLError", "<urlopen error [Errno 111] Connection refused>")

\* what _call_with_timeout raises when future.result times out
TimeoutException == Exception("TimeoutError", "API call timed out")

\* "429" in str(e) or "rate" in str(e).lower()
IsRateLimit(e) == e.text \in {"429 Too Many Requests"}

\* a backoff of RETRY_DELAY after every failure, never doubled
BackoffDelayFlat(e, n) == RETRY_DELAY

\* the delay slept before the next attempt
BackoffDelay(e, n) ==
    IF IsRateLimit(e)
    THEN LET retry_after == e.headers
             delay == IF retry_after.present THEN retry_after.retry_after ELSE 0
         IN IF delay <= 0 THEN RETRY_DELAY * Pow2(n) ELSE delay
    ELSE RETRY_DELAY * Pow2(n)

is_last(n) == n >= MAX_RETRIES - 1

(***************************************************************************)
(* summarize_long_entries.py: the pass, one action per step.               *)
(***************************************************************************)
SumInit(files, retry_delays, min_intervals, call_budgets) ==
    /\ origin \in files
    /\ lines = [k \in 1..Len(origin) |-> RenderedLine(origin[k])]
    /\ i = 1
    /\ updated = <<>>
    /\ lines_summarized = 0
    /\ max_calls \in call_budgets
    /\ written = <<>>
    /\ pc = "main"
    /\ RETRY_DELAY \in retry_delays
    /\ MIN_CALL_INTERVAL \in min_intervals
    /\ token \in BOOLEAN
    /\ prompt = <<>>
    /\ attempt = 0
    /\ now = 1
    /\ _last_call = 0
    /\ worker = NoWorker
    /\ exc = NoException
    /\ requests = <<>>
    /\ trace = <<>>
    /\ fate = [k \in 1..Len(origin) |-> "todo"]
    /\ summary = <<>>
    /\ blocked = 0

\* updated.append(line), and on to the next line
Emit(line, what) ==
    /\ updated' = Append(updated, line)
    /\ fate' = [fate EXCEPT ![i] = what]
    /\ i' = i + 1
    /\ pc' = "main"

\* the budget test off by one
BudgetExhaustedLate(count, budget) == count > budget

\* lines_summarized >= max_calls
BudgetExhausted(count, budget) == count >= budget

\* the sleep of the pacing block of _call_github_models
PacingSleep(t, last) ==
    IF MIN_CALL_INTERVAL > 0 /\ last # 0 /\ t - last < MIN_CALL_INTERVAL
    THEN MIN_CALL_INTERVAL - (t - last)
    ELSE 0

\* "\n".join(updated).rstrip() + "\n", as lines
RECURSIVE WriteOut(_)
WriteOut(ls) ==
    IF ls = <<>> THEN <<>>
    ELSE IF RStrip(ls[Len(ls)]) = <<>> THEN WriteOut(SubSeq(ls, 1, Len(ls) - 1))
    ELSE SubSeq(ls, 1, Len(ls) - 1) \o <<RStrip(ls[Len(ls)])>>

\* the last entry of the trace, completed
Closed(tr, outcome, finished) ==
    [tr EXCEPT ![Len(tr)].outcome = outcome, ![Len(tr)].finished = finished]

\* a line that is no bullet, or whose text fits
PassThrough ==
    /\ pc = "main" /\ i <= Len(lines)
    /\ ~OverLength(lines[i])
    /\ Emit(lines[i], "short")
    /\ UNCHANGED <<lines, origin, lines_summarized, max_calls, written, RETRY_DELAY,
                   MIN_CALL_INTERVAL, token, prompt, attempt, now, _last_call,
                   worker, exc, requests, trace, summary, blocked>>
    /\ UNCHANGED <<genVars, filterVars>>

\* "Reached max summaries": the line is kept
SkipBudget ==
    /\ pc = "main" /\ i <= Len(lines)
    /\ OverLength(lines[i])
    /\ BudgetExhausted(lines_summarized, max_calls)
    /\ Emit(lines[i], "skipped")
    /\ UNCHANGED <<lines, origin, lines_summarized, max_calls, written, RETRY_DELAY,
                   MIN_CALL_INTERVAL, token, prompt, attempt, now, _last_call,
                   worker, exc, requests, trace, summary, blocked>>
    /\ UNCHANGED <<genVars, filterVars>>

\* _call_github_models raises "Missing GITHUB_TOKEN ..."; _summarize_line
\* catches it and keeps the line
MissingToken ==
    /\ pc = "main" /\ i <= Len(lines)
    /\ OverLength(lines[i])
    /\ ~BudgetExhausted(lines_summarized, max_calls)
    /\ ~token
    /\ lines_summarized' = lines_summarized + 1
    /\ trace' = <<>>
    /\ Emit(lines[i], "error")
    /\ UNCHANGED <<lines, origin, max_calls, written, RETRY_DELAY, MIN_CALL_INTERVAL,
                   token, prompt, attempt, now, _last_call, worker, exc, requests,
                   summary, blocked>>
    /\ UNCHANGED <<genVars, filterVars>>

\* _summarize_line calls _call_github_models: the input cut, the pacing
\* sleep, _last_call, and the retry loop entered
BeginCall ==
    /\ pc = "main" /\ i <= Len(lines)
    /\ OverLength(lines[i])
    /\ ~BudgetExhausted(lines_summarized, max_calls)
    /\ token
    /\ lines_summarized' = lines_summarized + 1
    /\ prompt' = TruncatePrompt(MessageText(lines[i]))
    /\ now' = now + PacingSleep(now, _last_call)
    /\ _last_call' = now'
    /\ attempt' = 0
    /\ trace' = <<>>
    /\ pc' = "attempt"
    /\ UNCHANGED <<lines, origin, i, updated, max_calls, written, RETRY_DELAY,
                   MIN_CALL_INTERVAL, token, worker, exc, requests, fate, summary,
                   blocked>>
    /\ UNCHANGED <<genVars, filterVars>>

\* executor.submit(_call_api, ...): the request leaves; the endpoint's answer
\* and the time it takes are the environment's
Submit(calls) ==
    /\ pc = "attempt"
    /\ \E call \in calls :
         /\ worker' = [start |-> now, dur |-> call.dur, resp |-> call.resp,
                       running |-> TRUE]
         /\ trace' = Append(trace, [attempt |-> attempt, start |-> now,
                                    resp |-> call.resp, outcome |-> "pending",
                                    finished |-> 0, slept |-> 0])
         /\ requests' = Append(requests, [line |-> i, attempt |-> attempt,
                                           prompt |-> prompt, start |-> now,
                                           ends |-> now + call.dur])
    /\ pc' = "result"
    /\ UNCHANGED <<lines, origin, i, updated, lines_summarized, max_calls, written,
                   RETRY_DELAY, MIN_CALL_INTERVAL, token, prompt, attempt, now,
                   _last_call, exc, fate, summary, blocked>>
    /\ UNCHANGED <<genVars, filterVars>>

\* future.result returns the content in time: it is stripped (_call_api),
\* cut to max_chars (_call_github_models), wrapped and written (_summarize_line)
ResultReturned ==
    /\ pc = "result"
    /\ worker.dur <= API_TIMEOUT
    /\ worker.resp.kind = "ok"
    /\ now' = worker.start + worker.dur
    /\ blocked' = now' - worker.start
    /\ worker' = NoWorker
    /\ summary' = TruncateContent(Strip(worker.resp.content))
    /\ trace' = Closed(trace, "ok", now')
    /\ Emit(SummarizedLine(lines[i], summary'),
            IF summary' = <<>> THEN "empty" ELSE "summarized")
    /\ UNCHANGED <<lines, origin, lines_summarized, max_calls, written, RETRY_DELAY,
                   MIN_CALL_INTERVAL, token, prompt, attempt, _last_call, exc,
                   requests>>
    /\ UNCHANGED <<genVars, filterVars>>

\* future.result re-raises what _call_api raised in time
ResultRaised ==
    /\ pc = "result"
    /\ worker.dur <= API_TIMEOUT
    /\ worker.resp.kind # "ok"
    /\ now' = worker.start + worker.dur
    /\ blocked' = now' - worker.start
    /\ worker' = NoWorker
    /\ exc' = _call_api_raises(worker.resp)
    /\ trace' = Closed(trace, "error", now')
    /\ pc' = "except"
    /\ UNCHANGED <<lines, origin, i, updated, lines_summarized, max_calls, written,
                   RETRY_DELAY, MIN_CALL_INTERVAL, token, prompt, attempt,
                   _last_call, requests, fate, summary>>
    /\ UNCHANGED <<genVars, filterVars>>

\* future.result(timeout=API_TIMEOUT) raises; future.cancel() cannot cancel a
\* call that is running, and the worker goes on
ResultTimeout ==
    /\ pc = "result"
    /\ worker.dur > API_TIMEOUT
    /\ now' = worker.start + API_TIMEOUT
    /\ exc' = TimeoutException
    /\ pc' = "shutdown"
    /\ UNCHANGED <<lines, origin, i, updated, lines_summarized, max_calls, written,
                   RETRY_DELAY, MIN_CALL_INTERVAL, token, prompt, attempt,
                   _last_call, worker, requests, trace, fate, summary, blocked>>
    /\ UNCHANGED <<genVars, filterVars>>

\* an executor left with shutdown(wait=False): the worker is not waited for
JoinedAtNoWait(t, w) == t

\* when the worker thread of the executor is joined
JoinedAt(t, w) == IF w.start + w.dur > t THEN w.start + w.dur ELSE t

\* leaving "with ThreadPoolExecutor(...)": shutdown(wait=True) joins the worker
ExecutorShutdown ==
    /\ pc = "shutdown"
    /\ now' = JoinedAt(now, worker)
    /\ blocked' = now' - worker.start
    /\ worker' = NoWorker
    /\ trace' = Closed(trace, "timeout", now')
    /\ pc' = "except"
    /\ UNCHANGED <<lines, origin, i, updated, lines_summarized, max_calls, written,
                   RETRY_DELAY, MIN_CALL_INTERVAL, token, prompt, attempt,
                   _last_call, exc, requests, fate, summary>>
    /\ UNCHANGED <<genVars, filterVars>>

\* except Exception, not the last attempt: time.sleep(delay), next attempt
Backoff ==
    /\ pc = "except"
    /\ ~is_last(attempt)
    /\ now' = now + BackoffDelay(exc, attempt)
    /\ trace' = [trace EXCEPT ![Len(trace)].slept = BackoffDelay(exc, attempt)]
    /\ attempt' = attempt + 1
    /\ pc' = "attempt"
    /\ UNCHANGED <<lines, origin, i, updated, lines_summarized, max_calls, written,
                   RETRY_DELAY, MIN_CALL_INTERVAL, token, prompt, _last_call,
                   worker, exc, requests, fate, summary, blocked>>
    /\ UNCHANGED <<genVars, filterVars>>

\* except Exception, the last attempt: re-raised, caught by _summarize_line,
\* which keeps the line
GiveUp ==
    /\ pc = "except"
    /\ is_last(attempt)
    /\ Emit(lines[i], "failed")
    /\ UNCHANGED <<lines, origin, lines_summarized, max_calls, written, RETRY_DELAY,
                   MIN_CALL_INTERVAL, token, prompt, attempt, now, _last_call,
                   worker, exc, requests, trace, summary, blocked>>
    /\ UNCHANGED <<genVars, filterVars>>

\* the loop of main is over: the file is written back
WriteFile ==
    /\ pc = "main" /\ i > Len(lines)
    /\ written' = WriteOut(updated)
    /\ pc' = "done"
    /\ UNCHANGED <<lines, origin, i, updated, lines_summarized, max_calls,
                   RETRY_DELAY, MIN_CALL_INTERVAL, token, prompt, attempt, now,
                   _last_call, worker, exc, requests, trace, fate, summary, blocked>>
    /\ UNCHANGED <<genVars, filterVars>>

(***************************************************************************)
(* generate_rss_markdown.py: entries, timestamps and the window filter.    *)
(* A tick is the resolution of a timestamp; a UTC day has DayLen ticks.    *)
(***************************************************************************)
DayLen == 4

\* entry["date"]: None, a datetime without zone, or one with a UTC offset;
\* t is the wall-clock reading and off the offset of its zone, in ticks
NoDate == [kind |-> "none", t |-> 0, off |-> 0]
Naive(t) == [kind |-> "naive", t |-> t, off |-> 0]
Aware(t, off) == [kind |-> "aware", t |-> t, off |-> off]

Entry(title, message, link, date) ==
    [title |-> title, message |-> message, link |-> link, date |-> date]

\* dt.replace(tzinfo=timezone.utc) if dt.tzinfo is None, then
\* dt.astimezone(timezone.utc): the instant, in ticks of UTC
utc_dt(dt) == IF dt.kind = "aware" THEN dt.t - dt.off ELSE dt.t

\* _yesterday_range_utc at the wall-clock reading clock (its now_utc): the
\* date of now_utc - timedelta(days=1), from time.min to time.max
_yesterday_range_utc(clock) ==
    LET yesterday == (clock - DayLen) \div DayLen
    IN [start |-> yesterday * DayLen, end |-> yesterday * DayLen + (DayLen - 1)]

\* the comparison with the end of the window left out of it
InWindowOpenEnd(window, dt) == window.start <= utc_dt(dt) /\ utc_dt(dt) < window.end

\* window["start"] <= utc_dt <= window["end"]
InWindow(window, dt) == window.start <= utc_dt(dt) /\ utc_dt(dt) <= window.end

\* the loop of _filter_previous_day
RECURSIVE FilterLoop(_, _)
FilterLoop(entries, window) ==
    IF entries = <<>> THEN <<>>
    ELSE IF Head(entries).date.kind = "none" THEN FilterLoop(Tail(entries), window)
    ELSE IF InWindow(window, Head(entries).date)
    THEN <<Head(entries)>> \o FilterLoop(Tail(entries), window)
    ELSE FilterLoop(Tail(entries), window)

\* _filter_previous_day, called at the wall-clock reading clock
_filter_previous_day(entries, clock) ==
    FilterLoop(entries, _yesterday_range_utc(clock))


(***************************************************************************)
(* generate_rss_markdown.py: sorting by timestamp.                         *)
(***************************************************************************)
\* datetime.min, below every timestamp of a feed
DatetimeMin == -1000

\* e.get("date") or datetime.min, as the instant the comparison reads
SortKey(e) == IF e.date.kind = "none" THEN DatetimeMin ELSE utc_dt(e.date)

\* the key is a datetime with a zone
KeyAware(e) == e.date.kind = "aware"

\* comparing a datetime that has a zone with one that has none raises
\* TypeError: a sort raises it when its keys are of both sorts
SortRaises(entries) ==
    \E j, k \in 1..Len(entries) : KeyAware(entries[j]) /\ ~KeyAware(entries[k])

\* e put into a list sorted by key descending, after the entries of equal key
RECURSIVE InsertDescending(_, _)
InsertDescending(sorted, e) ==
    IF sorted = <<>> THEN <<e>>
    ELSE IF SortKey(Head(sorted)) >= SortKey(e)
    THEN <<Head(sorted)>> \o InsertDescending(Tail(sorted), e)
    ELSE <<e>> \o sorted

\* sorted(entries, key=..., reverse=True): descending and stable
RECURSIVE SortDescending(_)
SortDescending(entries) ==
    IF entries = <<>> THEN <<>>
    ELSE InsertDescending(SortDescending(SubSeq(entries, 1, Len(entries) - 1)),
                          entries[Len(entries)])

\* _latest_entry of a list that is not empty
_latest_entry(entries) == SortDescending(entries)[1]

(***************************************************************************)
(* generate_rss_markdown.py: the sources and what fetching them yields.    *)
(***************************************************************************)
\* Bluesky members a run may be given; it is given at most one blog feed,
\* one YouTube channel and one repository
MaxSources == 1
\* entries of one feed
MaxEntries == 2
\* ticks the wall clock may advance during one run
MaxTicks == 1

Untitled == <<"U", "n", "t", "i", "t", "l", "e", "d">>
H2Blogs == <<"#", "#", " ", "B", "l", "o", "g", "s">>
H2YouTube == <<"#", "#", " ", "Y", "o", "u", "T", "u", "b", "e">>
H2BlueSky == <<"#", "#", " ", "B", "l", "u", "e", "S", "k", "y">>
H2GitHub == <<"#", "#", " ", "G", "i", "t", "H", "u", "b", " ", "R", "e", "l", "e", "a", "s", "e", "s">>
GitHubCom == <<"h", "t", "t", "p", "s", ":", "/", "/", "g", "i", "t", "h", "u", "b", ".", "c", "o", "m", "/">>
EmDash == "U+2014"

\* f"### {name}"
H3(name) == <<"#", "#", "#", " ">> \o name

\* a or b
Or(a, b) == IF a # <<>> THEN a ELSE b

\* the k-th configured feed or channel: {"url": ..., "name": ...}; the odd
\* ones have no name configured
Feed(kind, k) ==
    [url |-> <<kind, "/", IF k = 1 THEN "1" ELSE IF k = 2 THEN "2" ELSE "3">>,
     name |-> IF k % 2 = 1 THEN <<>> ELSE <<"N", kind>>]

Repo(k) == <<"o", "/", IF k = 1 THEN "1" ELSE IF k = 2 THEN "2" ELSE "3">>

SourceLists(kind, most) == {[k \in 1..n |-> Feed(kind, k)] : n \in 0..most}
RepoLists == {[k \in 1..n |-> Repo(k)] : n \in 0..1}

\* the run starts on the last tick of UTC day 2: the previous day is day 1
RunStart == 3 * DayLen - 1

\* entries of the feeds: in day 1 once converted to UTC, with its zone; in
\* day 2, without a zone and without a link; and without a date
GenEntries ==
    { Entry(<<"A">>, <<"A">>, Url, Aware(2 * DayLen, 1)),
      Entry(<<"C">>, <<"C", "m">>, <<>>, Naive(2 * DayLen)),
      Entry(<<"D">>, <<"D">>, Url, NoDate) }

SeqsFrom0(S, n) == UNION {[1..k -> S] : k \in 0..n}

\* what fetching and parsing one source yields: no bytes (_fetch_bytes
\* returned None), bytes that are no XML, or a feed (its title, its entries)
Fetched(kind, title, entries) == [kind |-> kind, title |-> title, entries |-> entries]

\* the feeds declare the title T, but for one that declares none
Fetches ==
    {Fetched("network", <<>>, <<>>), Fetched("malformed", <<>>, <<>>)}
        \cup {Fetched("ok", <<"T">>, es) : es \in SeqsFrom0(GenEntries, MaxEntries)}
        \cup {Fetched("ok", <<>>, <<e>>) : e \in GenEntries}

(***************************************************************************)
(* generate_rss_markdown.py: generate_markdown.                            *)
(***************************************************************************)
\* the message of a bullet of a category
EntryMessage(cat, e) ==
    IF cat = "bluesky" THEN Or(e.message, Or(e.title, Untitled))
    ELSE Or(e.title, Or(e.message, Untitled))

RECURSIVE Bullets(_, _, _, _)
Bullets(entries, cat, link_label, include_share) ==
    IF entries = <<>> THEN <<>>
    ELSE <<BulletLine(EntryMessage(cat, Head(entries)), Head(entries).link,
                      link_label, include_share)>>
            \o Bullets(Tail(entries), cat, link_label, include_share)

\* what one source adds to the section of its category
SubSection(name, entries, cat, link_label, include_share) ==
    <<H3(name), <<>>>> \o Bullets(entries, cat, link_label, include_share) \o <<<<>>>>

\* the bullet of a repository's latest release
ReleaseBullet(repo, latest) ==
    LET title == Or(latest.title, Untitled)
        details == latest.message
        link == Or(latest.link, GitHubCom \o repo \o <<"/", "r", "e", "l", "e", "a", "s", "e", "s">>)
        full_msg == IF details # <<>> /\ details # title
                    THEN repo \o <<":", " ">> \o title \o <<" ", EmDash, " ">> \o details
                    ELSE repo \o <<":", " ">> \o title
    IN BulletLine(full_msg, link, LabelRelease, TRUE)

GenInit ==
    /\ blog_feeds \in SourceLists("b", 1)
    /\ youtube_channels \in SourceLists("y", 1)
    /\ sources \in SourceLists("s", MaxSources)
    /\ github_repos \in RepoLists
    /\ gpc = "blogs"
    /\ idx = 1
    /\ now_utc = RunStart
    /\ ticks = 0
    /\ blog_section = <<>>
    /\ youtube_section = <<>>
    /\ bluesky_section = <<>>
    /\ github_section = <<>>
    /\ doc = <<>>
    /\ markdown = <<>>
    /\ crash = "none"
    /\ windows = {}
    /\ fetched = <<>>

\* the wall clock advances while the run is under way
Tick ==
    /\ gpc \in {"blogs", "youtube", "bluesky", "github"}
    /\ ticks < MaxTicks
    /\ now_utc' = now_utc + 1
    /\ ticks' = ticks + 1
    /\ UNCHANGED <<blog_feeds, youtube_channels, sources, github_repos, gpc, idx,
                   blog_section, youtube_section, bluesky_section, github_section,
                   doc, markdown, crash, windows, fetched>>
    /\ UNCHANGED <<sumVars, filterVars>>

\* the source is met and skipped: continue
Skip(cat, kind) ==
    /\ fetched' = Append(fetched, [cat |-> cat, idx |-> idx, kind |-> kind])
    /\ idx' = idx + 1
    /\ UNCHANGED <<gpc, crash>>

\* ET.fromstring raises ParseError, or a sort raises TypeError: nothing in
\* generate_markdown or main catches it
Raise(cat, kind, error) ==
    /\ fetched' = Append(fetched, [cat |-> cat, idx |-> idx, kind |-> kind])
    /\ crash' = error
    /\ gpc' = "aborted"
    /\ UNCHANGED idx

\* one feed of blog_feeds: fetch, parse, filter, render
ProcessBlog ==
    /\ gpc = "blogs" /\ idx <= Len(blog_feeds)
    /\ \E f \in Fetches :
         LET feed == blog_feeds[idx]
             entries == _filter_previous_day(f.entries, now_utc)
         IN CASE f.kind = "network" ->
                   /\ Skip("blogs", "network")
                   /\ UNCHANGED <<blog_section, windows>>
              [] f.kind = "malformed" ->
                   /\ Raise("blogs", "malformed", "ParseError")
                   /\ UNCHANGED <<blog_section, windows>>
              [] OTHER ->
                   /\ Skip("blogs", "ok")
                   /\ windows' = windows \cup {_yesterday_range_utc(now_utc)}
                   /\ blog_section' =
                        IF entries = <<>> THEN blog_section
                        ELSE blog_section
                               \o SubSection(Or(feed.name, Or(f.title, feed.url)),
                                             entries, "blogs", LabelArticle, TRUE)
    /\ UNCHANGED <<blog_feeds, youtube_channels, sources, github_repos, now_utc,
                   ticks, youtube_section, bluesky_section, github_section, doc,
                   markdown>>
    /\ UNCHANGED <<sumVars, filterVars>>

\* after the loop over blog_feeds
EndBlogs ==
    /\ gpc = "blogs" /\ idx > Len(blog_feeds)
    /\ doc' = IF blog_section # <<>> THEN doc \o <<H2Blogs, <<>>>> \o blog_section
              ELSE doc
    /\ gpc' = "youtube"
    /\ idx' = 1
    /\ UNCHANGED <<blog_feeds, youtube_channels, sources, github_repos, now_utc,
                   ticks, blog_section, youtube_section, bluesky_section,
                   github_section, markdown, crash, windows, fetched>>
    /\ UNCHANGED <<sumVars, filterVars>>

\* one channel of youtube_channels: resolve the id, fetch, parse, filter, render
ProcessYouTube ==
    /\ gpc = "youtube" /\ idx <= Len(youtube_channels)
    /\ \E resolved \in BOOLEAN, f \in Fetches :
         LET channel == youtube_channels[idx]
             entries == _filter_previous_day(f.entries, now_utc)
         IN CASE ~resolved ->
                   /\ f = Fetched("network", <<>>, <<>>)
                   /\ Skip("youtube", "unresolvable")
                   /\ UNCHANGED <<youtube_section, windows>>
              [] resolved /\ f.kind = "network" ->
                   /\ Skip("youtube", "network")
                   /\ UNCHANGED <<youtube_section, windows>>
              [] resolved /\ f.kind = "malformed" ->
                   /\ Raise("youtube", "malformed", "ParseError")
                   /\ UNCHANGED <<youtube_section, windows>>
              [] OTHER ->
                   /\ Skip("youtube", "ok")
                   /\ windows' = windows \cup {_yesterday_range_utc(now_utc)}
                   /\ youtube_section' =
                        IF entries = <<>> THEN youtube_section
                        ELSE youtube_section
                               \o SubSection(Or(channel.name, Or(f.title, channel.url)),
                                             entries, "youtube", LabelVideo, TRUE)
    /\ UNCHANGED <<blog_feeds, youtube_channels, sources, github_repos, now_utc,
                   ticks, blog_section, bluesky_section, github_section, doc,
                   markdown>>
    /\ UNCHANGED <<sumVars, filterVars>>

\* after the loop over youtube_channels
EndYouTube ==
    /\ gpc = "youtube" /\ idx > Len(youtube_channels)
    /\ doc' = IF youtube_section # <<>>
              THEN doc \o <<H2YouTube, <<>>>> \o youtube_section
              ELSE doc
    /\ gpc' = "bluesky"
    /\ idx' = 1
    /\ UNCHANGED <<blog_feeds, youtube_channels, sources, github_repos, now_utc,
                   ticks, blog_section, youtube_section, bluesky_section,
                   github_section, markdown, crash, windows, fetched>>
    /\ UNCHANGED <<sumVars, filterVars>>

\* one member of sources: fetch, parse, sort, filter, render
ProcessBlueSky ==
    /\ gpc = "bluesky" /\ idx <= Len(sources)
    /\ \E f \in Fetches :
         LET source == sources[idx]
             entries == _filter_previous_day(SortDescending(f.entries), now_utc)
         IN CASE f.kind = "network" ->
                   /\ Skip("bluesky", "network")
                   /\ UNCHANGED <<bluesky_section, windows>>
              [] f.kind = "malformed" ->
                   /\ Raise("bluesky", "malformed", "ParseError")
                   /\ UNCHANGED <<bluesky_section, windows>>
              [] f.kind = "ok" /\ SortRaises(f.entries) ->
                   /\ Raise("bluesky", "ok", "TypeError")
                   /\ UNCHANGED <<bluesky_section, windows>>
              [] OTHER ->
                   /\ Skip("bluesky", "ok")
                   /\ windows' = windows \cup {_yesterday_range_utc(now_utc)}
                   /\ bluesky_section' =
                        IF entries = <<>> THEN bluesky_section
                        ELSE bluesky_section
                               \o SubSection(source.name, entries, "bluesky",
                                             LabelPost, FALSE)
    /\ UNCHANGED <<blog_feeds, youtube_channels, sources, github_repos, now_utc,
                   ticks, blog_section, youtube_section, github_section, doc,
                   markdown>>
    /\ UNCHANGED <<sumVars, filterVars>>

\* the "## BlueSky" heading appended whether or not the section is empty
EndBlueSkyAlways ==
    /\ gpc = "bluesky" /\ idx > Len(sources)
    /\ doc' = doc \o <<H2BlueSky, <<>>>> \o bluesky_section
    /\ gpc' = "github"
    /\ idx' = 1
    /\ UNCHANGED <<blog_feeds, youtube_channels, sources, github_repos, now_utc,
                   ticks, blog_section, youtube_section, bluesky_section,
                   github_section, markdown, crash, windows, fetched>>
    /\ UNCHANGED <<sumVars, filterVars>>

\* after the loop over sources
EndBlueSky ==
    /\ gpc = "bluesky" /\ idx > Len(sources)
    /\ doc' = IF bluesky_section # <<>>
              THEN doc \o <<H2BlueSky, <<>>>> \o bluesky_section
              ELSE doc
    /\ gpc' = "github"
    /\ idx' = 1
    /\ UNCHANGED <<blog_feeds, youtube_channels, sources, github_repos, now_utc,
                   ticks, blog_section, youtube_section, bluesky_section,
                   github_section, markdown, crash, windows, fetched>>
    /\ UNCHANGED <<sumVars, filterVars>>

\* one repository of github_repos: fetch, parse, filter, latest, render
ProcessGitHub ==
    /\ gpc = "github" /\ idx <= Len(github_repos)
    /\ \E f \in Fetches :
         LET repo == github_repos[idx]
             entries == _filter_previous_day(f.entries, now_utc)
         IN CASE f.kind = "network" ->
                   /\ Skip("github", "network")
                   /\ UNCHANGED <<github_section, windows>>
              [] f.kind = "malformed" ->
                   /\ Raise("github", "malformed", "ParseError")
                   /\ UNCHANGED <<github_section, windows>>
              [] f.kind = "ok" /\ SortRaises(entries) ->
                   /\ Raise("github", "ok", "TypeError")
                   /\ windows' = windows \cup {_yesterday_range_utc(now_utc)}
                   /\ UNCHANGED github_section
              [] OTHER ->
                   /\ Skip("github", "ok")
                   /\ windows' = windows \cup {_yesterday_range_utc(now_utc)}
                   /\ github_section' =
                        IF entries = <<>> THEN github_section
                        ELSE Append(github_section,
                                    ReleaseBullet(repo, _latest_entry(entries)))
    /\ UNCHANGED <<blog_feeds, youtube_channels, sources, github_repos, now_utc,
                   ticks, blog_section, youtube_section, bluesky_section, doc,
                   markdown>>
    /\ UNCHANGED <<sumVars, filterVars>>

\* after the loop over github_repos: "\n".join(lines).rstrip() + "\n"
EndGitHub ==
    /\ gpc = "github" /\ idx > Len(github_repos)
    /\ doc' = IF github_section # <<>>
              THEN doc \o <<H2GitHub, <<>>>> \o github_section
              ELSE doc
    /\ markdown' = WriteOut(doc')
    /\ gpc' = "done"
    /\ UNCHANGED <<blog_feeds, youtube_channels, sources, github_repos, idx,
                   now_utc, ticks, blog_section, youtube_section, bluesky_section,
                   github_section, crash, windows, fetched>>
    /\ UNCHANGED <<sumVars, filterVars>>

(***************************************************************************)
(* One application of _filter_previous_day to any list of entries.         *)
(***************************************************************************)
\* the timestamps of the entries filtered: none, without zone and with an
\* offset of one tick either way, at the first and last ticks of days 1 and 2
DayEnds == {DayLen - 1, DayLen, 2 * DayLen - 1, 2 * DayLen, 3 * DayLen - 1}

FilterDates ==
    {NoDate}
        \cup {Naive(t) : t \in DayEnds}
        \cup {Aware(t, off) : t \in DayEnds, off \in {-1, 1}}

FilterEntries == {Entry(<<"E">>, <<"E">>, Url, d) : d \in FilterDates}

\* the wall clock at the call: the first and last tick of day 2, and day 3
FilterNows == {2 * DayLen, 3 * DayLen - 1, 3 * DayLen}

FilterInit ==
    /\ f_entries \in SeqsFrom0(FilterEntries, MaxEntries)
    /\ f_now \in FilterNows
    /\ f_filtered = <<>>
    /\ f_pc = "call"

ApplyFilter ==
    /\ f_pc = "call"
    /\ f_filtered' = _filter_previous_day(f_entries, f_now)
    /\ f_pc' = "returned"
    /\ UNCHANGED <<f_entries, f_now>>
    /\ UNCHANGED <<sumVars, genVars>>

(***************************************************************************)
(* The specifications.                                                     *)
(***************************************************************************)
\* a part of the program that does not run
SumIdle ==
    /\ SumInit({<<>>}, {0}, {0}, {0})
    /\ token = FALSE
GenIdle ==
    /\ GenInit
    /\ blog_feeds = <<>> /\ youtube_channels = <<>> /\ sources = <<>>
    /\ github_repos = <<>>
FilterIdle ==
    /\ f_entries = <<>> /\ f_now = 0 /\ f_filtered = <<>> /\ f_pc = "call"

vars == <<sumVars, genVars, filterVars>>

\* the summarization pass over any file, at the default pacing
Init == SumInit(Files, {2}, {1}, {MAX_SUMMARIES}) /\ GenIdle /\ FilterIdle

SumNext(calls) ==
    \/ PassThrough
    \/ SkipBudget
    \/ MissingToken
    \/ BeginCall
    \/ Submit(calls)
    \/ ResultReturned
    \/ ResultRaised
    \/ ResultTimeout
    \/ ExecutorShutdown
    \/ Backoff
    \/ GiveUp
    \/ WriteFile

Next == SumNext(Calls(Responses))

Spec == Init /\ [][Next]_vars

\* the summarization pass over a file of over-length bullets, at any pacing
InitTiming == SumInit(TimingFiles, RetryDelays, MinIntervals, {2}) /\ GenIdle /\ FilterIdle

NextTiming == SumNext(Calls(TimingResponses))

SpecTiming == InitTiming /\ [][NextTiming]_vars

\* one run of digest generation
InitGen == GenInit /\ SumIdle /\ FilterIdle

NextGen ==
    \/ Tick
    \/ ProcessBlog
    \/ EndBlogs
    \/ ProcessYouTube
    \/ EndYouTube
    \/ ProcessBlueSky
    \/ EndBlueSky
    \/ ProcessGitHub
    \/ EndGitHub

SpecGen == InitGen /\ [][NextGen]_vars

\* one call of the window filter
InitFilter == FilterInit /\ SumIdle /\ GenIdle

NextFilter == ApplyFilter

SpecFilter == InitFilter /\ [][NextFilter]_vars


(***************************************************************************)
(* Properties of digest generation.                                        *)
(***************************************************************************)
\* C3: in one run every source of every category is filtered against one
\* and the same window, also when the wall clock passes UTC midnight
\* between two sources.
C3_OneWindowPerRun == Cardinality(windows) <= 1

\* the instant of a timestamp in UTC, one without zone read as UTC
InstantUTC(dt) == IF dt.kind = "aware" THEN dt.t - dt.off ELSE dt.t

\* the positions of the entries whose instant lies in the UTC calendar day
\* before the day of the wall-clock reading
InPreviousDay(entries, clock) ==
    {k \in 1..Len(entries) :
        /\ entries[k].date.kind # "none"
        /\ InstantUTC(entries[k].date) \div DayLen = (clock \div DayLen) - 1}

\* the j-th smallest member of a set of positions
Nth(S, j) == CHOOSE k \in S : Cardinality({m \in S : m < k}) = j - 1

\* C4: for every list of entries and every wall-clock reading the filter
\* returns exactly the entries with a timestamp in the previous UTC calendar
\* day, first and last tick included, the timestamp converted to UTC and one
\* without zone read as UTC; entries without a timestamp are dropped and the
\* entries kept are in their input order.
C4_FilterKeepsPreviousUtcDay ==
    f_pc = "returned" =>
        LET kept == InPreviousDay(f_entries, f_now)
        IN /\ Len(f_filtered) = Cardinality(kept)
           /\ \A j \in 1..Len(f_filtered) : f_filtered[j] = f_entries[Nth(kept, j)]

\* C4's case: the filter was applied, at a clock in day 2, to an entry whose
\* zone puts it on the last tick of day 1 and one without zone on the first
\* tick of day 1, and kept both in order
C4_Witness ==
    /\ f_pc = "returned"
    /\ f_now \div DayLen = 2
    /\ Len(f_entries) >= 2
    /\ f_entries[1].date = Aware(2 * DayLen, 1)
    /\ f_entries[2].date = Naive(DayLen)
    /\ Len(f_filtered) >= 2
    /\ f_filtered[1] = f_entries[1]
    /\ f_filtered[2] = f_entries[2]

\* the sources a run is given
SourcesGiven ==
    Len(blog_feeds) + Len(youtube_channels) + Len(sources) + Len(github_repos)

\* C5: a failure of one source (no bytes fetched, bytes that are no XML, a
\* YouTube channel id that cannot be resolved) never aborts the run: the
\* source is skipped and every source after it is still met, to the end.
C5_SourceFailureNeverAborts ==
    /\ gpc = "aborted"
          => fetched[Len(fetched)].kind \notin {"network", "malformed", "unresolvable"}
    /\ gpc = "done" => Len(fetched) = SourcesGiven

(***************************************************************************)
(* Properties of the summarization pass.                                   *)
(***************************************************************************)
\* the lines for which at least one request left
Requested == {requests[r].line : r \in 1..Len(requests)}

\* the over-length bullets above line k
OverLengthBefore(k) == {j \in 1..(k - 1) : OverLength(lines[j])}

\* the lines of the output that differ from the input
Rewritten == {k \in 1..Len(updated) : updated[k] # lines[k]}

\* C1: in one run the over-length bullets for which a summarization is
\* attempted, and so those summarized, never number more than the configured
\* maximum; an over-length bullet met once the maximum is reached is written
\* out unchanged and no request is made for it.
C1_CallBudget ==
    /\ lines_summarized <= max_calls
    /\ Cardinality(Requested) <= max_calls
    /\ Cardinality(Rewritten) <= max_calls
    /\ \A k \in 1..Len(updated) :
         (OverLength(lines[k]) /\ Cardinality(OverLengthBefore(k)) >= max_calls)
            => (updated[k] = lines[k] /\ k \notin Requested)

\* C1's case: a bullet was summarized, a later over-length bullet was met
\* with the budget used up, and the pass has ended
C1_Witness ==
    /\ pc = "done"
    /\ \E j, k \in 1..Len(lines) :
         /\ j < k
         /\ j \in Rewritten
         /\ OverLength(lines[k])
         /\ updated[k] = lines[k]

\* all that the Digest Renderer put after the message of a bullet
LinkSegments(o) == Slice(RenderedLine(o), 2 + Len(o.message), Len(RenderedLine(o)))

\* "[label]("
LabelMark(o) == <<"[">> \o o.link_label \o <<"]", "(">>

\* C2: for every over-length bullet the Digest Renderer can write, with a
\* labeled link alone or with a labeled link and a Bsky share link, the text
\* sent to the endpoint holds no part of the link segments, and after a
\* successful summarization all the link segments end the output line.
C2_LinksNeverSentAndKept ==
    /\ \A r \in 1..Len(requests) :
         LET o == origin[requests[r].line]
         IN o.link # <<>>
               => (~Contains(requests[r].prompt, LabelMark(o))
                   /\ ~Contains(requests[r].prompt, o.link))
    /\ \A k \in Rewritten : EndsWith(updated[k], LinkSegments(origin[k]))

\* the attempt that closed the trace of the bullet last requested
LastAttempt == trace[Len(trace)]

\* the bullet the trace is about has been written out
TraceSettled ==
    /\ trace # <<>>
    /\ requests # <<>>
    /\ Len(updated) >= requests[Len(requests)].line

\* every attempt failed, or the call returned an empty or blank content
NoSummary ==
    \/ LastAttempt.outcome \in {"error", "timeout"}
    \/ LastAttempt.outcome = "ok" /\ Strip(LastAttempt.resp.content) = <<>>

\* C6: when every attempt for an over-length bullet fails, or the call
\* returns an empty or whitespace-only content, the line collected and the
\* line written are the original line, the pass is back in the loop of main,
\* and at its end it has collected every line of the file.
C6_FailureKeepsLine ==
    /\ (TraceSettled /\ NoSummary)
          => LET k == requests[Len(requests)].line
             IN /\ updated[k] = lines[k]
                /\ pc = "done" => written[k] = lines[k]
                /\ pc \in {"main", "done"}
    /\ pc = "done" => Len(updated) = Len(lines)

\* C6's case: all attempts for a bullet failed, lines followed it, and the
\* pass reached its end
C6_Witness ==
    /\ pc = "done"
    /\ TraceSettled
    /\ Len(trace) = MAX_RETRIES
    /\ LastAttempt.outcome \in {"error", "timeout"}
    /\ requests[Len(requests)].line < Len(lines)

\* C7: for one bullet at most MAX_RETRIES requests leave; after the failure
\* of attempt n (from 0) that is not the last the client sleeps
\* RETRY_DELAY * 2^n and then starts the next attempt; no attempt follows a
\* success, and the content of the successful attempt is what is returned.
C7_RetryBackoff ==
    /\ \A k \in 1..Len(lines) :
         Cardinality({r \in 1..Len(requests) : requests[r].line = k}) <= MAX_RETRIES
    /\ Len(trace) <= MAX_RETRIES
    /\ \A n \in 1..Len(trace) :
         /\ trace[n].attempt = n - 1
         /\ n < Len(trace) =>
              /\ trace[n].outcome \in {"error", "timeout"}
              /\ trace[n].slept = RETRY_DELAY * Pow2(n - 1)
              /\ trace[n + 1].start = trace[n].finished + RETRY_DELAY * Pow2(n - 1)
    /\ (trace # <<>> /\ LastAttempt.outcome = "ok")
          => /\ summary = LastAttempt.resp.content
             /\ pc \in {"main", "done"}

\* C7's case: two rate-limit failures, then a success on the third attempt
\* whose content is returned
C7_Witness ==
    /\ Len(trace) = 3
    /\ trace[1].resp.code = 429 /\ trace[1].outcome = "error"
    /\ trace[2].resp.code = 429 /\ trace[2].outcome = "error"
    /\ trace[3].outcome = "ok"
    /\ summary = Plain
    /\ RETRY_DELAY > 0

\* C8: after a rate-limit failure whose response carries a positive
\* Retry-After, on an attempt that is not the last, the client sleeps that
\* Retry-After value.
C8_RetryAfterHonoured ==
    \A n \in 1..(Len(trace) - 1) :
        (trace[n].resp.code = 429 /\ trace[n].resp.retry_after > 0
            /\ trace[n].outcome = "error")
           => trace[n].slept = trace[n].resp.retry_after

\* C9: any request starts at least MIN_CALL_INTERVAL after the request
\* before it, be they retries for one bullet or requests for two bullets.
C9_MinIntervalBetweenRequests ==
    \A r \in 2..Len(requests) :
        requests[r].start - requests[r - 1].start >= MIN_CALL_INTERVAL

\* C10: the caller is blocked on one attempt for no longer than the timeout,
\* however long the call itself runs.
C10_BlockedAtMostTimeout == blocked <= API_TIMEOUT
\* the requests made for the bullet at hand
RequestsAtHand == {r \in 1..Len(requests) : requests[r].line = requests[Len(requests)].line}

\* C11: at most one request is in flight at any moment: a request (a retry
\* or the call for the next bullet) starts only once the network call of
\* every earlier request has ended, also after a timeout; every attempt is a
\* request of its own; and a bullet whose last attempt timed out is not
\* rewritten.
C11_OneRequestInFlight ==
    /\ \A r \in 2..Len(requests) : requests[r].start >= requests[r - 1].ends
    /\ pc \in {"result", "shutdown"}
          => \A r \in 1..(Len(requests) - 1) : requests[r].ends <= now
    /\ trace # <<>>
          => /\ Cardinality(RequestsAtHand) = Len(trace)
             /\ \A n \in 1..Len(trace) :
                  requests[Len(requests) - Len(trace) + n].attempt = n - 1
    /\ (TraceSettled /\ LastAttempt.outcome = "timeout")
          => updated[requests[Len(requests)].line] = lines[requests[Len(requests)].line]
    /\ \A n \in 1..Len(trace) :
         (trace[n].outcome = "timeout" /\ n < Len(trace)) => trace[n + 1].start >= trace[n].finished

\* C11's case: the first call for a bullet outlasted the timeout, a retry
\* with no backoff followed it and succeeded, and an earlier bullet had been
\* requested too
C11_Witness ==
    /\ RETRY_DELAY = 0
    /\ Len(trace) = 2
    /\ trace[1].outcome = "timeout"
    /\ trace[2].outcome = "ok"
    /\ requests[1].line # requests[Len(requests)].line
    /\ TraceSettled
\* C12: with no token configured and an over-length bullet in the file, the
\* pass does not complete: it never reaches its successful end, and no
\* over-length bullet is kept as an ordinary failed summarization.
C12_MissingTokenIsFatal ==
    (~token /\ \E k \in 1..Len(lines) : OverLength(lines[k]))
        => /\ pc # "done"
           /\ \A k \in 1..Len(lines) : fate[k] # "error"
\* the category headings, in the order of the document
CategoryHeadings == <<H2Blogs, H2YouTube, H2BlueSky, H2GitHub>>

IsCategoryHeading(line) == \E c \in 1..Len(CategoryHeadings) : line = CategoryHeadings[c]

CategoryRank(line) == CHOOSE c \in 1..Len(CategoryHeadings) : line = CategoryHeadings[c]

IsSourceHeading(line) == StartsWith(line, <<"#", "#", "#", " ">>)

\* a bullet follows line p of the document before any line that stops holds
BulletUnder(d, p, stops(_)) ==
    \E q \in (p + 1)..Len(d) :
        /\ IsBullet(d[q])
        /\ \A m \in (p + 1)..(q - 1) : ~stops(d[m])

IsHeading(line) == IsCategoryHeading(line) \/ IsSourceHeading(line)

\* no heading of document d is empty, and its category headings are in order
WellSectioned(d) ==
    /\ \A p \in 1..Len(d) :
         /\ IsCategoryHeading(d[p]) => BulletUnder(d, p, IsCategoryHeading)
         /\ IsSourceHeading(d[p]) => BulletUnder(d, p, IsHeading)
    /\ \A p, q \in 1..Len(d) :
         (p < q /\ IsCategoryHeading(d[p]) /\ IsCategoryHeading(d[q]))
            => CategoryRank(d[p]) < CategoryRank(d[q])

\* C13: in every document returned, a category heading is there only with
\* a bullet under it, a source heading only with a bullet of that source
\* under it, and the category headings there are in the order Blogs,
\* YouTube, BlueSky, GitHub Releases.
C13_NoEmptyHeadings == gpc = "done" => WellSectioned(markdown)

\* the lines of document d that are category headings
HeadingsOf(d) == {d[p] : p \in {q \in 1..Len(d) : IsCategoryHeading(d[q])}}

\* C13's case: a document was returned with the Blogs and GitHub Releases
\* sections, while a Bluesky member feed was fetched and parsed and left no
\* entry in the window, so that no BlueSky section was written
C13_Witness ==
    /\ gpc = "done"
    /\ HeadingsOf(markdown) = {H2Blogs, H2GitHub}
    /\ \E k \in 1..Len(fetched) : fetched[k].cat = "bluesky" /\ fetched[k].kind = "ok"
    /\ \E k \in 1..Len(fetched) : fetched[k].cat = "youtube" /\ fetched[k].kind = "network"
\* the content of the attempt that succeeded, as _call_api returns it
ReturnedContent == Strip(LastAttempt.resp.content)

\* C14: the message text of every line the pass rewrote, measured as the
\* pass measures it, is at most max_chars characters long; and a returned
\* summary longer than max_chars is used as its first max_chars - 1
\* characters followed by one ellipsis character.
C14_SummaryFitsMaxChars ==
    /\ \A k \in Rewritten : Len(MessageText(updated[k])) <= max_chars
    /\ (TraceSettled /\ LastAttempt.outcome = "ok" /\ Len(ReturnedContent) > max_chars)
          => summary = Slice(ReturnedContent, 0, max_chars - 1) \o <<Ellipsis>>
\* C15: a Bluesky member feed or a GitHub release feed that was fetched and
\* parsed, whatever mix of timestamps with a zone, without a zone and
\* missing its entries carry, never ends the run: no TypeError leaves the
\* sort, and the run goes on to the next source.
C15_MixedDatesNeverRaise ==
    /\ crash # "TypeError"
    /\ \A k \in 1..Len(fetched) :
         (fetched[k].cat \in {"bluesky", "github"} /\ fetched[k].kind = "ok")
            => ~(gpc = "aborted" /\ k = Len(fetched))
====
